---- MODULE Spec2Model ----
(***************************************************************************)
(* Shape-and-dataflow model of modeling_siglip.py: SiglipVisionConfig,     *)
(* SiglipVisionEmbedddings, SiglipMLP, SiglipAttention, SiglipEncoderLayer,*)
(* SiglipEncoder, SiglipVisionTransformer and SiglipVisionModel.           *)
(*                                                                         *)
(* A tensor is modelled by its shape (a sequence of naturals), by the      *)
(* exception its computation raised (err) and by a symbolic term (val): a  *)
(* prefix-notation sequence of <<module name, layer index>> tokens that    *)
(* records which modules produced it, in which order.                      *)
(***************************************************************************)
EXTENDS Integers, Sequences, FiniteSets, TLC

VARIABLES
  pc,            \* position: new, configured, init_failed, ready, embeddings,
                 \* encoder, layer_mid, returned, raised
  config,        \* the SiglipVisionConfig object
  model,         \* the SiglipVisionModel object: embeddings, layers, post_layernorm
  pixel_values,  \* argument of the forward call in progress
  hidden_states, \* hidden_states of SiglipEncoder.forward / SiglipEncoderLayer.forward
  residual,      \* residual of SiglipEncoderLayer.forward
  input_embeds,  \* argument of SiglipEncoder.forward
  layer_x,       \* argument of the SiglipEncoderLayer.forward call last entered
  layer_idx,     \* 1-based index of the layer the encoder loop is at
  attn,          \* the SiglipAttention.forward call last made: input, intermediates, outputs
  result,        \* tensor returned by the forward call
  error          \* exception raised by construction or by the forward call

vars == <<pc, config, model, pixel_values, hidden_states, residual,
          input_embeds, layer_x, layer_idx, attn, result, error>>

\* ------------------------------------------------------------------ bounds
MaxHidden == 3
MaxHeads == 2
MaxIntermediate == 2
MaxLayers == 2
MaxImage == 3
MaxPatch == 2
MaxBatch == 2
\* num_channels default of SiglipVisionConfig
NumChannels == 3

\* ------------------------------------------------------------------ tensors
NoErr == "none"

Tensor(shape, val) == [err |-> NoErr, shape |-> shape, val |-> val]

Raise(kind) == [err |-> kind, shape |-> <<>>, val |-> <<>>]

NoTensor == Tensor(<<>>, <<>>)

Tok(name, id) == <<name, id>>

\* the tensor t as the output of module `name` of layer `id` applied to val
WithVal(t, name, id, val) ==
  IF t.err # NoErr THEN t ELSE [t EXCEPT !.val = <<Tok(name, id)>> \o val]

RECURSIVE Prod(_)
Prod(s) == IF s = <<>> THEN 1 ELSE Head(s) * Prod(Tail(s))

Max(a, b) == IF a >= b THEN a ELSE b

\* right-aligned dimension i of s seen as a shape of rank n (missing dims are 1)
PadDim(s, n, i) == IF i <= n - Len(s) THEN 1 ELSE s[i - (n - Len(s))]

BroadcastOk(s1, s2) ==
  LET n == Max(Len(s1), Len(s2))
  IN \A i \in 1..n :
       \/ PadDim(s1, n, i) = PadDim(s2, n, i)
       \/ PadDim(s1, n, i) = 1
       \/ PadDim(s2, n, i) = 1

BroadcastShape(s1, s2) ==
  LET n == Max(Len(s1), Len(s2))
  IN [i \in 1..n |->
        IF PadDim(s1, n, i) = 1 THEN PadDim(s2, n, i) ELSE PadDim(s1, n, i)]

\* a + b
Add(a, b) ==
  IF a.err # NoErr THEN a
  ELSE IF b.err # NoErr THEN b
  ELSE IF ~BroadcastOk(a.shape, b.shape) THEN Raise("RuntimeError")
  ELSE Tensor(BroadcastShape(a.shape, b.shape), <<Tok("add", 0)>> \o a.val \o b.val)

\* t.transpose(i-1, j-1): dimensions are 1-based here, 0-based in the source
Transpose(t, i, j) ==
  IF t.err # NoErr THEN t
  ELSE [t EXCEPT !.shape = [d \in 1..Len(t.shape) |->
                              IF d = i THEN t.shape[j]
                              ELSE IF d = j THEN t.shape[i]
                              ELSE t.shape[d]]]

\* t.view(*shape) and t.reshape(*shape) with explicit sizes
View(t, shape) ==
  IF t.err # NoErr THEN t
  ELSE IF Prod(shape) # Prod(t.shape) THEN Raise("RuntimeError")
  ELSE [t EXCEPT !.shape = shape]

\* t.flatten(2) of a rank-4 tensor
Flatten2(t) ==
  IF t.err # NoErr THEN t
  ELSE [t EXCEPT !.shape = <<t.shape[1], t.shape[2], t.shape[3] * t.shape[4]>>]

\* torch.matmul of two rank-4 tensors: batch dims broadcast, inner dims agree
MatMulShape(s1, s2) == BroadcastShape(SubSeq(s1, 1, 2), SubSeq(s2, 1, 2)) \o <<s1[3], s2[4]>>

MatMul(a, b) ==
  IF a.err # NoErr THEN a
  ELSE IF b.err # NoErr THEN b
  ELSE IF a.shape[4] # b.shape[3] \/ ~BroadcastOk(SubSeq(a.shape, 1, 2), SubSeq(b.shape, 1, 2))
       THEN Raise("RuntimeError")
  ELSE [a EXCEPT !.shape = MatMulShape(a.shape, b.shape)]

\* softmax(dim=-1) and dropout keep the shape
Softmax(t) == t

Dropout(t) == t

Gelu(t) == t

\* ------------------------------------------------------------------ nn modules
Linear(in_features, out_features) ==
  [in_features |-> in_features, out_features |-> out_features]

LinearForward(lin, t) ==
  IF t.err # NoErr THEN t
  ELSE IF t.shape[Len(t.shape)] # lin.in_features THEN Raise("RuntimeError")
  ELSE [t EXCEPT !.shape = [d \in 1..Len(t.shape) |->
                              IF d = Len(t.shape) THEN lin.out_features ELSE t.shape[d]]]

LayerNorm(name, id, normalized_shape) ==
  [name |-> name, id |-> id, normalized_shape |-> normalized_shape]

LayerNormForward(ln, t) ==
  IF t.err # NoErr THEN t
  ELSE IF t.shape[Len(t.shape)] # ln.normalized_shape THEN Raise("RuntimeError")
  ELSE WithVal(t, ln.name, ln.id, t.val)

Conv2d(in_channels, out_channels, kernel_size, stride) ==
  [in_channels |-> in_channels, out_channels |-> out_channels,
   kernel_size |-> kernel_size, stride |-> stride]

ConvOutCeil(n, k, s) == (n + s - 1) \div s

\* output extent of an unpadded convolution along one axis
ConvOut(n, k, s) == (n - k) \div s + 1

Conv2dForward(conv, t) ==
  IF t.err # NoErr THEN t
  ELSE IF t.shape[2] # conv.in_channels THEN Raise("RuntimeError")
  ELSE IF t.shape[3] < conv.kernel_size \/ t.shape[4] < conv.kernel_size
       THEN Raise("RuntimeError")
  ELSE WithVal([t EXCEPT !.shape = <<t.shape[1], conv.out_channels,
                                     ConvOut(t.shape[3], conv.kernel_size, conv.stride),
                                     ConvOut(t.shape[4], conv.kernel_size, conv.stride)>>],
               "patch_embedding", 0, t.val)

Embedding(num_embeddings, embedding_dim) ==
  [num_embeddings |-> num_embeddings, embedding_dim |-> embedding_dim]

\* torch.arange(n).expand((1, -1)): one row holding 0..n-1
Arange(n) == [i \in 1..n |-> i - 1]

\* positional_embedding(position_ids): ids is the single row of a [1, n] buffer
EmbeddingForward(emb, ids) ==
  IF \E i \in 1..Len(ids) : ids[i] >= emb.num_embeddings THEN Raise("IndexError")
  ELSE Tensor(<<1, Len(ids), emb.embedding_dim>>, <<Tok("positional_embedding", 0)>>)

\* ------------------------------------------------------------------ SiglipVisionConfig
SiglipVisionConfig(hidden, intermediate, layers, heads, channels, image, patch) ==
  [hidden_size |-> hidden, intermediate_size |-> intermediate,
   num_hidden_layers |-> layers, num_attention_heads |-> heads,
   num_channels |-> channels, image_size |-> image, patch_size |-> patch]

NoConfig == SiglipVisionConfig(0, 0, 0, 0, 0, 0, 0)

\* ------------------------------------------------------------------ SiglipVisionEmbedddings
NumPatchesUnsquared(image_size, patch_size) == image_size \div patch_size

NumPatches(image_size, patch_size) ==
  (image_size \div patch_size) * (image_size \div patch_size)

SiglipVisionEmbedddings(cfg) ==
  LET num_patches == NumPatches(cfg.image_size, cfg.patch_size)
      num_positions == num_patches
  IN [embed_dim |-> cfg.hidden_size,
      image_size |-> cfg.image_size,
      patch_size |-> cfg.patch_size,
      patch_embedding |-> Conv2d(cfg.num_channels, cfg.hidden_size,
                                 cfg.patch_size, cfg.patch_size),
      num_patches |-> num_patches,
      num_positions |-> num_positions,
      positional_embedding |-> Embedding(num_positions, cfg.hidden_size),
      position_ids |-> Arange(num_positions)]

SiglipVisionEmbedddingsForward(emb, px) ==
  LET patch_embeds == Conv2dForward(emb.patch_embedding, px)
      embeddings == Transpose(Flatten2(patch_embeds), 2, 3)
  IN Add(embeddings, EmbeddingForward(emb.positional_embedding, emb.position_ids))

\* ------------------------------------------------------------------ SiglipMLP
SiglipMLP(cfg) ==
  [fc1 |-> Linear(cfg.hidden_size, cfg.intermediate_size),
   fc2 |-> Linear(cfg.intermediate_size, cfg.hidden_size)]

SiglipMLPForwardNoFc2(mlp, id, hs) ==
  WithVal(Gelu(LinearForward(mlp.fc1, hs)), "mlp", id, hs.val)

SiglipMLPForward(mlp, id, hs) ==
  WithVal(LinearForward(mlp.fc2, Gelu(LinearForward(mlp.fc1, hs))), "mlp", id, hs.val)

\* ------------------------------------------------------------------ SiglipAttention
\* head_dim ** -0.5 raises ZeroDivisionError when head_dim is 0
SiglipAttentionInitErr(cfg) ==
  IF cfg.hidden_size \div cfg.num_attention_heads = 0 THEN "ZeroDivisionError" ELSE NoErr

SiglipAttention(cfg) ==
  [embed_dim |-> cfg.hidden_size,
   num_heads |-> cfg.num_attention_heads,
   head_dim |-> cfg.hidden_size \div cfg.num_attention_heads,
   q_proj |-> Linear(cfg.hidden_size, cfg.hidden_size),
   k_proj |-> Linear(cfg.hidden_size, cfg.hidden_size),
   v_proj |-> Linear(cfg.hidden_size, cfg.hidden_size),
   out_proj |-> Linear(cfg.hidden_size, cfg.hidden_size)]

SplitHeadsNoTranspose(att, t, batch_size, seq_len) ==
  View(t, <<batch_size, seq_len, att.num_heads, att.head_dim>>)

\* x.view(batch_size, seq_len, num_heads, head_dim).transpose(1, 2)
SplitHeads(att, t, batch_size, seq_len) ==
  Transpose(View(t, <<batch_size, seq_len, att.num_heads, att.head_dim>>), 2, 3)

\* the explicit size checks of SiglipAttention.forward
CheckSize(t, expected) ==
  IF t.err # NoErr THEN t
  ELSE IF t.shape # expected THEN Raise("ValueError")
  ELSE t

NoAttn == [called |-> FALSE, input |-> NoTensor, out |-> NoTensor, weights |-> NoTensor,
           scores |-> NoTensor, attn_output |-> NoTensor]

\* returns the pair (attn_output, attn_weights) as out, weights; scores and
\* attn_output are the two intermediates the size checks look at
SiglipAttentionForward(att, id, hs) ==
  IF hs.err # NoErr
  THEN [called |-> FALSE, input |-> hs, out |-> hs, weights |-> hs, scores |-> hs,
        attn_output |-> hs]
  ELSE
  LET batch_size == hs.shape[1]
      seq_len == hs.shape[2]
      query_states == SplitHeads(att, LinearForward(att.q_proj, hs), batch_size, seq_len)
      key_states == SplitHeads(att, LinearForward(att.k_proj, hs), batch_size, seq_len)
      value_states == SplitHeads(att, LinearForward(att.v_proj, hs), batch_size, seq_len)
      scores == MatMul(query_states, Transpose(key_states, 3, 4))
      attn_weights == Dropout(Softmax(
                        CheckSize(scores, <<batch_size, att.num_heads, seq_len, seq_len>>)))
      attn_output == MatMul(attn_weights, value_states)
      checked == CheckSize(attn_output, <<batch_size, att.num_heads, seq_len, att.head_dim>>)
      merged == View(Transpose(checked, 2, 3), <<batch_size, seq_len, att.embed_dim>>)
      out == WithVal(LinearForward(att.out_proj, merged), "attn", id, hs.val)
  IN [called |-> TRUE, input |-> hs, out |-> out,
      weights |-> IF out.err # NoErr THEN out
                  ELSE WithVal(attn_weights, "attn_weights", id, hs.val),
      scores |-> scores, attn_output |-> attn_output]

\* ------------------------------------------------------------------ SiglipEncoderLayer
SiglipEncoderLayer(cfg, id) ==
  [id |-> id,
   embed_dim |-> cfg.hidden_size,
   attn |-> SiglipAttention(cfg),
   layernorm1 |-> LayerNorm("layernorm1", id, cfg.hidden_size),
   mlp |-> SiglipMLP(cfg),
   layernorm2 |-> LayerNorm("layernorm2", id, cfg.hidden_size)]

\* first half of SiglipEncoderLayer.forward: residual = x; x = attn(layernorm1(x))[0];
\* x = residual + x
AttnBlock(layer, x) ==
  LET res == x
      a == SiglipAttentionForward(layer.attn, layer.id, LayerNormForward(layer.layernorm1, x))
  IN [residual |-> res, attn |-> a, hidden_states |-> Add(res, a.out)]

MlpBlockStaleResidual(layer, old_residual, hs) ==
  Add(old_residual, SiglipMLPForward(layer.mlp, layer.id, LayerNormForward(layer.layernorm2, hs)))

\* second half: residual = x; x = mlp(layernorm2(x)); x = residual + x.
\* old_residual is the value `residual` holds before it is reassigned.
MlpBlock(layer, old_residual, hs) ==
  LET res == hs
  IN Add(res, SiglipMLPForward(layer.mlp, layer.id, LayerNormForward(layer.layernorm2, res)))

\* ------------------------------------------------------------------ SiglipEncoder
SiglipEncoderLayersShared(cfg) ==
  [i \in 1..cfg.num_hidden_layers |-> SiglipEncoderLayer(cfg, 0)]

\* [SiglipEncoderLayer(config) for _ in range(config.num_hidden_layers)]
SiglipEncoderLayers(cfg) ==
  [i \in 1..cfg.num_hidden_layers |-> SiglipEncoderLayer(cfg, i - 1)]

\* ------------------------------------------------------------------ SiglipVisionTransformer
NoModel == [built |-> FALSE,
            embeddings |-> SiglipVisionEmbedddings(
                             SiglipVisionConfig(0, 0, 0, 0, 0, 0, 1)),
            layers |-> <<>>,
            post_layernorm |-> LayerNorm("post_layernorm", 0, 0)]

\* exception raised by SiglipVisionModel.__init__, NoErr when it completes
SiglipVisionModelInitErr(cfg) ==
  IF cfg.num_hidden_layers > 0 THEN SiglipAttentionInitErr(cfg) ELSE NoErr

SiglipVisionModel(cfg) ==
  [built |-> TRUE,
   embeddings |-> SiglipVisionEmbedddings(cfg),
   layers |-> SiglipEncoderLayers(cfg),
   post_layernorm |-> LayerNorm("post_layernorm", 0, cfg.hidden_size)]

\* ------------------------------------------------------------------ state machine
Configs ==
  { SiglipVisionConfig(h, f, l, a, NumChannels, i, p) :
      h \in 1..MaxHidden, f \in 1..MaxIntermediate, l \in 0..MaxLayers,
      a \in 1..MaxHeads, i \in 1..MaxImage, p \in 1..MaxPatch }

\* pixel tensors of rank 4; the channel count is the configured one or one less
PixelShapes ==
  { <<b, c, h, w>> : b \in 1..MaxBatch, c \in {NumChannels - 1, NumChannels},
                     h \in 1..(MaxImage + 1), w \in 1..(MaxImage + 1) }

Init ==
  /\ pc = "new"
  /\ config = NoConfig
  /\ model = NoModel
  /\ pixel_values = NoTensor
  /\ hidden_states = NoTensor
  /\ residual = NoTensor
  /\ input_embeds = NoTensor
  /\ layer_x = NoTensor
  /\ layer_idx = 0
  /\ attn = NoAttn
  /\ result = NoTensor
  /\ error = [kind |-> NoErr, raised_in |-> NoErr]

\* SiglipVisionConfig.__init__: stores the hyperparameters, validates nothing
ConfigInit ==
  /\ pc = "new"
  /\ \E cfg \in Configs : config' = cfg
  /\ pc' = "configured"
  /\ UNCHANGED <<model, pixel_values, hidden_states, residual, input_embeds,
                 layer_x, layer_idx, attn, result, error>>

\* SiglipVisionModel.__init__ -> SiglipVisionTransformer.__init__ ->
\* embeddings, encoder layers, post_layernorm
ModelInit ==
  /\ pc = "configured"
  /\ IF SiglipVisionModelInitErr(config) # NoErr
     THEN /\ pc' = "init_failed"
          /\ error' = [kind |-> SiglipVisionModelInitErr(config), raised_in |-> "__init__"]
          /\ UNCHANGED model
     ELSE /\ pc' = "ready"
          /\ model' = SiglipVisionModel(config)
          /\ UNCHANGED error
  /\ UNCHANGED <<config, pixel_values, hidden_states, residual, input_embeds,
                 layer_x, layer_idx, attn, result>>

\* SiglipVisionModel.forward is entered with a pixel tensor
VisionModelForward ==
  /\ pc = "ready"
  /\ \E shape \in PixelShapes : pixel_values' = Tensor(shape, <<Tok("pixel_values", 0)>>)
  /\ pc' = "embeddings"
  /\ UNCHANGED <<config, model, hidden_states, residual, input_embeds, layer_x,
                 layer_idx, attn, result, error>>

\* the call is over: the caller has the returned tensor or the exception, and
\* the activations of the call are gone; the model can be called again
CallEnds ==
  /\ pc \in {"returned", "raised"}
  /\ pc' = "ready"
  /\ pixel_values' = NoTensor
  /\ hidden_states' = NoTensor
  /\ residual' = NoTensor
  /\ input_embeds' = NoTensor
  /\ layer_x' = NoTensor
  /\ layer_idx' = 0
  /\ attn' = NoAttn
  /\ result' = NoTensor
  /\ error' = [kind |-> NoErr, raised_in |-> NoErr]
  /\ UNCHANGED <<config, model>>

\* hidden_states = self.embeddings(pixel_values), then SiglipEncoder.forward is
\* entered with it
EmbeddingsForward ==
  /\ pc = "embeddings"
  /\ LET e == SiglipVisionEmbedddingsForward(model.embeddings, pixel_values)
     IN IF e.err # NoErr
        THEN /\ pc' = "raised"
             /\ error' = [kind |-> e.err, raised_in |-> "embeddings"]
             /\ UNCHANGED <<hidden_states, input_embeds, layer_idx>>
        ELSE /\ pc' = "encoder"
             /\ hidden_states' = e
             /\ input_embeds' = e
             /\ layer_idx' = 1
             /\ UNCHANGED error
  /\ UNCHANGED <<config, model, pixel_values, residual, layer_x, attn, result>>

\* one iteration of the encoder loop enters layer layer_idx and runs its
\* attention half
EncoderLayerAttn ==
  /\ pc = "encoder"
  /\ layer_idx <= Len(model.layers)
  /\ LET r == AttnBlock(model.layers[layer_idx], hidden_states)
     IN /\ layer_x' = hidden_states
        /\ residual' = r.residual
        /\ attn' = r.attn
        /\ IF r.hidden_states.err # NoErr
           THEN /\ pc' = "raised"
                /\ error' = [kind |-> r.hidden_states.err, raised_in |-> "attn"]
                /\ UNCHANGED hidden_states
           ELSE /\ pc' = "layer_mid"
                /\ hidden_states' = r.hidden_states
                /\ UNCHANGED error
  /\ UNCHANGED <<config, model, pixel_values, input_embeds, layer_idx, result>>

\* the feed-forward half of the layer; the layer returns to the encoder loop
EncoderLayerMlp ==
  /\ pc = "layer_mid"
  /\ LET out == MlpBlock(model.layers[layer_idx], residual, hidden_states)
     IN IF out.err # NoErr
        THEN /\ pc' = "raised"
             /\ error' = [kind |-> out.err, raised_in |-> "mlp"]
             /\ UNCHANGED <<hidden_states, residual, layer_idx>>
        ELSE /\ pc' = "encoder"
             /\ residual' = hidden_states
             /\ hidden_states' = out
             /\ layer_idx' = layer_idx + 1
             /\ UNCHANGED error
  /\ UNCHANGED <<config, model, pixel_values, input_embeds, layer_x, attn, result>>

\* the encoder loop is exhausted: post_layernorm, return last_hidden_state
PostLayernormReturn ==
  /\ pc = "encoder"
  /\ layer_idx > Len(model.layers)
  /\ LET out == LayerNormForward(model.post_layernorm, hidden_states)
     IN IF out.err # NoErr
        THEN /\ pc' = "raised"
             /\ error' = [kind |-> out.err, raised_in |-> "post_layernorm"]
             /\ UNCHANGED result
        ELSE /\ pc' = "returned"
             /\ result' = out
             /\ UNCHANGED error
  /\ UNCHANGED <<config, model, pixel_values, hidden_states, residual, input_embeds,
                 layer_x, layer_idx, attn>>

Next ==
  \/ ConfigInit
  \/ ModelInit
  \/ VisionModelForward
  \/ EmbeddingsForward
  \/ EncoderLayerAttn
  \/ EncoderLayerMlp
  \/ PostLayernormReturn
  \/ CallEnds

Spec == Init /\ [][Next]_vars

\* ------------------------------------------------------------------ properties
\* the hyperparameter invariants the specification asks a Config to satisfy
ValidConfig ==
  /\ config.hidden_size % config.num_attention_heads = 0
  /\ config.image_size % config.patch_size = 0

ForwardPcs == {"embeddings", "encoder", "layer_mid", "returned", "raised"}

CallOver == pc \in {"returned", "raised"}

\* the embeddings stage of the current call has run (and returned or raised)
EmbeddingsRan == pc \in {"encoder", "layer_mid", "returned", "raised"}

EmbeddingsRaised == pc = "raised" /\ error.raised_in = "embeddings"

InputBatch == pixel_values.shape[1]
InputChannels == pixel_values.shape[2]
InputHeight == pixel_values.shape[3]
InputWidth == pixel_values.shape[4]

\* (image_size / patch_size)^2 of the configuration
ConfigNumPatches ==
  (config.image_size \div config.patch_size) * (config.image_size \div config.patch_size)

GuaranteedShape == <<InputBatch, ConfigNumPatches, config.hidden_size>>

\* C1: on a model of a valid configuration, forward on a pixel tensor
\* [B, num_channels, image_size, image_size] returns a tensor of shape
\* [B, num_patches, hidden_size], and on every input whose height or width
\* differs from image_size it raises and returns nothing.
C1_ForwardReturnsOrShapeError ==
  (CallOver /\ ValidConfig) =>
    /\ (InputChannels = config.num_channels /\ InputHeight = config.image_size
          /\ InputWidth = config.image_size)
         => (pc = "returned" /\ result.shape = GuaranteedShape)
    /\ (InputHeight # config.image_size \/ InputWidth # config.image_size)
         => pc = "raised"

\* C2: with image_size % patch_size # 0 construction fails with a ConfigError,
\* so no forward call ever runs on such a configuration.
C2_IndivisibleImageSizeRejected ==
  (pc # "new" /\ config.image_size % config.patch_size # 0) =>
    /\ error.kind = "ConfigError"
    /\ pc \notin ForwardPcs \cup {"ready"}

\* C3: with hidden_size % num_attention_heads # 0 construction fails with a
\* ConfigError and does not complete, so no attention block with
\* head_dim * num_heads # hidden_size is ever built or run.
C3_IndivisibleHiddenSizeRejected ==
  /\ (pc # "new" /\ config.hidden_size % config.num_attention_heads # 0) =>
       (error.kind = "ConfigError" /\ ~model.built)
  /\ \A i \in 1..Len(model.layers) :
       model.layers[i].attn.head_dim * model.layers[i].attn.num_heads
         = model.layers[i].attn.embed_dim

\* C4: every forward call ends either by returning a tensor of the guaranteed
\* shape [B, (image_size / patch_size)^2, hidden_size] or by raising; no call
\* returns a tensor of another shape.
C4_ReturnsGuaranteedShapeOrRaises ==
  /\ pc = "returned" => (result.err = NoErr /\ result.shape = GuaranteedShape)
  /\ pc = "raised" => (error.kind # NoErr /\ result = NoTensor)

\* what construction derives from a valid configuration
C5_TableShape ==
  (model.built /\ ValidConfig) =>
    LET e == model.embeddings
    IN /\ e.num_patches = ConfigNumPatches
       /\ e.positional_embedding.num_embeddings = ConfigNumPatches
       /\ e.positional_embedding.embedding_dim = config.hidden_size
       /\ Len(e.position_ids) = ConfigNumPatches
       /\ \A i \in 1..Len(e.position_ids) : e.position_ids[i] = i - 1

\* C5: for every valid configuration the constructed model has
\* num_patches = (image_size // patch_size)^2, a positional table of num_patches
\* rows of width hidden_size and position_ids = 0..num_patches-1, and no step
\* of a forward call changes the constructed model or its configuration.
C5_PositionalTableFixed ==
  /\ []C5_TableShape
  /\ [][model.built => (model' = model /\ config' = config)]_vars

C5_Witness ==
  /\ pc = "returned"
  /\ ValidConfig
  /\ model.embeddings.num_patches > 1
  /\ result.shape[2] = model.embeddings.num_patches

\* the term one encoder layer with index id computes from the term x
LayerTerm(x, id) ==
  LET h1 == <<Tok("add", 0)>> \o x \o <<Tok("attn", id), Tok("layernorm1", id)>> \o x
  IN <<Tok("add", 0)>> \o h1 \o <<Tok("mlp", id), Tok("layernorm2", id)>> \o h1

\* layers 0 .. k-1 applied to x in this order, each once
RECURSIVE LayerChain(_, _)
LayerChain(x, k) == IF k = 0 THEN x ELSE LayerTerm(LayerChain(x, k - 1), k - 1)

\* C6: the encoder holds num_hidden_layers layers; after k iterations of its
\* loop the hidden state is layers 0..k-1 applied in order, each once, to the
\* input embeddings, and a call returns only after all num_hidden_layers
\* layers ran (the input unchanged when there are none).
C6_EncoderLinearChain ==
  /\ model.built => Len(model.layers) = config.num_hidden_layers
  /\ pc = "encoder" =>
       /\ layer_idx - 1 <= config.num_hidden_layers
       /\ hidden_states.val = LayerChain(input_embeds.val, layer_idx - 1)
       /\ (layer_idx = 1 => hidden_states = input_embeds)
  /\ pc = "returned" =>
       /\ layer_idx - 1 = config.num_hidden_layers
       /\ hidden_states.val = LayerChain(input_embeds.val, config.num_hidden_layers)
       /\ result.val = <<Tok("post_layernorm", 0)>> \o hidden_states.val
       /\ (config.num_hidden_layers = 0 => hidden_states = input_embeds)

C6_Witness ==
  /\ pc = "returned"
  /\ config.num_hidden_layers >= 2
  /\ hidden_states.val = LayerTerm(LayerTerm(input_embeds.val, 0), 1)

\* C7: the shape of the hidden state after the first residual addition of an
\* encoder layer, and after the second one (the layer's output), is the
\* rank-3 shape of the layer's input.
C7_LayerKeepsShape ==
  /\ pc = "layer_mid" =>
       (Len(layer_x.shape) = 3 /\ hidden_states.shape = layer_x.shape)
  /\ (pc \in {"encoder", "returned"} /\ layer_idx > 1) =>
       (Len(layer_x.shape) = 3 /\ hidden_states.shape = layer_x.shape)

C7_Witness ==
  /\ pc = "encoder"
  /\ layer_idx > 1
  /\ layer_x.shape[2] > 1
  /\ config.intermediate_size # config.hidden_size
  /\ hidden_states.shape = layer_x.shape

\* C8: an attention call on [B, S, E] with E = hidden_size = num_heads *
\* head_dim returns an output of shape [B, S, E] and weights of shape
\* [B, num_heads, S, S]; its score tensor has shape [B, num_heads, S, S] and its
\* weighted-value tensor [B, num_heads, S, head_dim]; and whenever one of the
\* two intermediates has another shape the call raises the ValueError of its
\* size checks.
C8_AttentionShapes ==
  attn.called =>
    LET B == attn.input.shape[1]
        S == attn.input.shape[2]
        H == config.num_attention_heads
        D == config.hidden_size \div config.num_attention_heads
    IN /\ (config.hidden_size = H * D) =>
            /\ attn.input.shape = <<B, S, config.hidden_size>>
            /\ attn.out.err = NoErr
            /\ attn.out.shape = <<B, S, config.hidden_size>>
            /\ attn.weights.shape = <<B, H, S, S>>
            /\ attn.scores.shape = <<B, H, S, S>>
            /\ attn.attn_output.shape = <<B, H, S, D>>
       /\ ( \/ (attn.scores.err = NoErr /\ attn.scores.shape # <<B, H, S, S>>)
            \/ (attn.attn_output.err = NoErr /\ attn.attn_output.shape # <<B, H, S, D>>) )
            => attn.out.err = "ValueError"

C8_Witness ==
  /\ attn.called
  /\ config.num_attention_heads = 2
  /\ config.hidden_size = 2
  /\ attn.input.shape[2] > 2
  /\ attn.out.shape = attn.input.shape
  /\ attn.weights.shape = <<attn.input.shape[1], 2, attn.input.shape[2], attn.input.shape[2]>>

HasToken(val, name) == \E i \in 1..Len(val) : val[i][1] = name

\* C9: after the attention half of layer id the hidden state is
\* h1 = x + Attention(LayerNorm_1(x)) with x the layer's unnormalized input;
\* after the feed-forward half it is h1 + FeedForward(LayerNorm_2(h1)), the
\* second residual being h1; the attention weights appear in neither.
C9_PreNormResiduals ==
  /\ pc = "layer_mid" =>
       LET id == layer_idx - 1
           x == layer_x.val
       IN /\ residual = layer_x
          /\ hidden_states.val =
               <<Tok("add", 0)>> \o x \o <<Tok("attn", id), Tok("layernorm1", id)>> \o x
          /\ ~HasToken(hidden_states.val, "attn_weights")
  /\ (pc \in {"encoder", "returned"} /\ layer_idx > 1) =>
       LET id == layer_idx - 2
           x == layer_x.val
           h1 == residual.val
       IN /\ h1 = <<Tok("add", 0)>> \o x \o <<Tok("attn", id), Tok("layernorm1", id)>> \o x
          /\ hidden_states.val =
               <<Tok("add", 0)>> \o h1 \o <<Tok("mlp", id), Tok("layernorm2", id)>> \o h1
          /\ ~HasToken(hidden_states.val, "attn_weights")

C9_Witness ==
  /\ pc = "encoder"
  /\ layer_idx = 3
  /\ residual.val # layer_x.val
  /\ HasToken(hidden_states.val, "mlp")
  /\ attn.called

\* number of patch vectors the convolution yields on the current input
InputPatches ==
  (InputHeight \div config.patch_size) * (InputWidth \div config.patch_size)

\* the input has the configured channel count and fits at least one patch
C10_Applies ==
  /\ EmbeddingsRan
  /\ InputChannels = config.num_channels
  /\ InputHeight >= config.patch_size
  /\ InputWidth >= config.patch_size

C10_ConvAndBroadcast ==
  LET P == InputPatches
      N == model.embeddings.num_patches
  IN /\ Flatten2(Conv2dForward(model.embeddings.patch_embedding, pixel_values)).shape
          = <<InputBatch, config.hidden_size, P>>
     /\ ~EmbeddingsRaised <=> (P = N \/ P = 1 \/ N = 1)

====
